---- MODULE Spec2Model ----
(***************************************************************************)
(* Mezzanine walkthrough viewer (src/main.cpp): the camera navigation      *)
(* state machine (keyboard and pointer handlers, boundary clamp, teleport  *)
(* links) and the model-file reader.                                       *)
(*                                                                         *)
(* Coordinates are fixed-point: one unit is 1/100 of a scene unit, so     *)
(* every literal of the source (11.5, 4.64, 7.53, ...) is an exact         *)
(* integer (1150, 464, 753, ...).  The source's float comparisons          *)
(* (clampFloat, between) become integer comparisons on these values.       *)
(***************************************************************************)
EXTENDS Integers, Sequences, FiniteSets, TLC

VARIABLES
    cameraPos,        \* *cameraPos (main.cpp:134), inverted coordinates
    cameraRotationY,  \* yaw counter (main.cpp:131)
    modelviewRot,     \* rotation accumulated in the modelview matrix by
                      \* glRotatef, in steps of MOUSE_SENSITIVITY degrees
    prevX,            \* static prevX of handleMouseMotion (main.cpp:309)
    lastKey,          \* the event handled last: a key, "mouse" or "none"
    candidate,        \* cameraPos as the switch of handleKeyboard left it,
                      \* before correctForBoundaries ran
    offAxisMoves,     \* movement events handled while modelviewRot # 0
    exited,           \* exit(0) was called (key 'q')
    input,            \* PureSpec: the position the calls started from
    arg,              \* PureSpec: argument of the call made last
    res,              \* PureSpec: its result
    calls,            \* PureSpec: the functions called so far, in order
    isOpen,           \* ParseSpec: file.open found and opened the file
    file,             \* ParseSpec: the lines getline will deliver
    lineNo,           \* ParseSpec: lines read so far
    name,             \* Obj::name
    vertices,         \* Obj::vertices
    normals,          \* Obj::normals
    faces,            \* Obj::faces
    cout,             \* what readFile printed, one tag per output line
    pc                \* ParseSpec: "loop" in the while loop, "done" when
                      \* readFile has returned, "registered" when main
                      \* has put the Obj into objects and gone on

vars == <<cameraPos, cameraRotationY, modelviewRot, prevX, lastKey,
          candidate, offAxisMoves, exited, input, arg, res, calls,
          isOpen, file, lineNo, name, vertices, normals, faces, cout, pc>>

navVars == <<cameraPos, cameraRotationY, modelviewRot, prevX, lastKey,
             candidate, offAxisMoves, exited>>

pureVars == <<input, arg, res, calls>>

objVars == <<isOpen, file, lineNo, name, vertices, normals, faces, cout,
            pc>>

----------------------------------------------------------------------------
(* Bounds of the model. *)

\* look events are explored while |modelviewRot| <= MaxTurn
MaxTurn == 1

\* movement events handled with a rotated view
MaxOffAxis == 1

\* pointer samples carry x in 0..MaxPointerX
MaxPointerX == 1

\* input positions lie on, and Eps units either side of, every threshold
Eps == 1

\* PureSpec makes at most MaxCalls calls in a row
MaxCalls == 2

\* a model file has at most MaxLines lines
MaxLines == 2

----------------------------------------------------------------------------
(* Point3 and the two float helpers. *)

Point3(px, py, pz) == [x |-> px, y |-> py, z |-> pz]

clampFloat(value, min, max) ==
    IF value < min THEN min
    ELSE IF value > max THEN max
    ELSE value

between(value, min, max) == value >= min /\ value <= max

----------------------------------------------------------------------------
(* correctForBoundaries: the statements of the function in order; x1, z1   *)
(* are cameraPos->x, ->z after the base clamp, x2, z2 after the mezzanine  *)
(* branch taken.                                                           *)

\* mutant: the base clamp of z is left out
correctForBoundaries_noBaseZ(p) ==
    LET x1 == clampFloat(p.x, -1150, 1150)
        z1 == p.z
    IN  IF p.y < -753
        THEN IF between(z1, -1000, -464)
             THEN Point3(clampFloat(x1, -545, 1150), p.y, z1)
             ELSE IF between(z1, 476, 1000)
             THEN Point3(clampFloat(x1, -260, 1150), p.y, z1)
             ELSE IF between(z1, -464, 476)
             THEN Point3(clampFloat(x1, 450, 1150), p.y, z1)
             ELSE Point3(x1, p.y, z1)
        ELSE Point3(x1, p.y, z1)

\* mutant: the hole branch clamps x from -4.5 (sign slip) instead of 4.5
correctForBoundaries_holeSign(p) ==
    LET x1 == clampFloat(p.x, -1150, 1150)
        z1 == clampFloat(p.z, -1000, 1000)
    IN  IF p.y < -753
        THEN IF between(z1, -1000, -464)
             THEN Point3(clampFloat(x1, -545, 1150), p.y, z1)
             ELSE IF between(z1, 476, 1000)
             THEN Point3(clampFloat(x1, -260, 1150), p.y, z1)
             ELSE IF between(z1, -464, 476)
             THEN Point3(clampFloat(x1, -450, 1150), p.y, z1)
             ELSE Point3(x1, p.y, z1)
        ELSE Point3(x1, p.y, z1)

\* mutant: the landing strip's z-clamp ends one unit short of the strip
correctForBoundaries_stripZ(p) ==
    LET x1 == clampFloat(p.x, -1150, 1150)
        z1 == clampFloat(p.z, -1000, 1000)
    IN  IF p.y < -753
        THEN IF between(z1, -1000, -464)
             THEN LET x2 == clampFloat(x1, -545, 1150)
                      z2 == IF between(x2, -545, 450)
                            THEN clampFloat(z1, -1000, -564) ELSE z1
                  IN  Point3(x2, p.y, z2)
             ELSE IF between(z1, 476, 1000)
             THEN LET x2 == clampFloat(x1, -260, 1150)
                      z2 == IF between(x2, -260, 450)
                            THEN clampFloat(z1, 476, 1000) ELSE z1
                  IN  Point3(x2, p.y, z2)
             ELSE IF between(z1, -464, 476)
             THEN Point3(clampFloat(x1, 450, 1150), p.y, z1)
             ELSE Point3(x1, p.y, z1)
        ELSE Point3(x1, p.y, z1)

\* mutant: the mezzanine branches test z as it was before the base clamp
correctForBoundaries_staleZ(p) ==
    LET x1 == clampFloat(p.x, -1150, 1150)
        z1 == clampFloat(p.z, -1000, 1000)
    IN  IF p.y < -753
        THEN IF between(p.z, -1000, -464)
             THEN Point3(clampFloat(x1, -545, 1150), p.y, z1)
             ELSE IF between(p.z, 476, 1000)
             THEN Point3(clampFloat(x1, -260, 1150), p.y, z1)
             ELSE IF between(p.z, -464, 476)
             THEN Point3(clampFloat(x1, 450, 1150), p.y, z1)
             ELSE Point3(x1, p.y, z1)
        ELSE Point3(x1, p.y, z1)

correctForBoundaries(p) ==
    LET x1 == clampFloat(p.x, -1150, 1150)
        z1 == clampFloat(p.z, -1000, 1000)
    IN  IF p.y < -753
        THEN IF between(z1, -1000, -464)
             THEN LET x2 == clampFloat(x1, -545, 1150)
                      z2 == IF between(x2, -545, 450)
                            THEN clampFloat(z1, -1000, -464)
                            ELSE z1
                  IN  Point3(x2, p.y, z2)
             ELSE IF between(z1, 476, 1000)
             THEN LET x2 == clampFloat(x1, -260, 1150)
                      z2 == IF between(x2, -260, 450)
                            THEN clampFloat(z1, 476, 1000)
                            ELSE z1
                  IN  Point3(x2, p.y, z2)
             ELSE IF between(z1, -464, 476)
             THEN Point3(clampFloat(x1, 450, 1150), p.y, z1)
             ELSE Point3(x1, p.y, z1)
        ELSE Point3(x1, p.y, z1)

----------------------------------------------------------------------------
(* teleportIfNecessary: two consecutive ifs (not else-if); the second      *)
(* tests the position the first one left.                                  *)

\* mutant: the upper-floor destination lies inside the second trigger box
teleportIfNecessary_chain(p) ==
    LET p1 == IF /\ between(p.x, -1150, -750)
                 /\ between(p.z, -250, -150)
                 /\ between(p.y, -201, -199)
              THEN Point3(-280, -754, -990)
              ELSE p
    IN  IF /\ between(p1.x, -332, -232)
           /\ between(p1.z, -1000, -750)
           /\ between(p1.y, -755, -753)
        THEN Point3(-935, -200, 0)
        ELSE p1

\* mutant: the second trigger does not test y
teleportIfNecessary_noY(p) ==
    LET p1 == IF /\ between(p.x, -1150, -750)
                 /\ between(p.z, -250, -150)
                 /\ between(p.y, -201, -199)
              THEN Point3(186, -754, -990)
              ELSE p
    IN  IF /\ between(p1.x, -332, -232)
           /\ between(p1.z, -1000, -750)
        THEN Point3(-935, -200, 0)
        ELSE p1

\* mutant: the lower-floor destination has y = -2 in hundredths
teleportIfNecessary_destUnits(p) ==
    LET p1 == IF /\ between(p.x, -1150, -750)
                 /\ between(p.z, -250, -150)
                 /\ between(p.y, -201, -199)
              THEN Point3(186, -754, -990)
              ELSE p
    IN  IF /\ between(p1.x, -332, -232)
           /\ between(p1.z, -1000, -750)
           /\ between(p1.y, -755, -753)
        THEN Point3(-935, -2, 0)
        ELSE p1

\* mutant: the lower-floor destination lies inside the first trigger box
teleportIfNecessary_destInBox1(p) ==
    LET p1 == IF /\ between(p.x, -1150, -750)
                 /\ between(p.z, -250, -150)
                 /\ between(p.y, -201, -199)
              THEN Point3(186, -754, -990)
              ELSE p
    IN  IF /\ between(p1.x, -332, -232)
           /\ between(p1.z, -1000, -750)
           /\ between(p1.y, -755, -753)
        THEN Point3(-935, -200, -200)
        ELSE p1

teleportIfNecessary(p) ==
    LET p1 == IF /\ between(p.x, -1150, -750)
                 /\ between(p.z, -250, -150)
                 /\ between(p.y, -201, -199)
              THEN Point3(186, -754, -990)
              ELSE p
    IN  IF /\ between(p1.x, -332, -232)
           /\ between(p1.z, -1000, -750)
           /\ between(p1.y, -755, -753)
        THEN Point3(-935, -200, 0)
        ELSE p1

----------------------------------------------------------------------------
(* getCameraForward reads column 2 of the modelview matrix and returns     *)
(* (-mat[8], mat[9], mat[10]).  init's gluLookAt (eye (0,2,0), centre      *)
(* (0,2,20), up (0,1,0)) makes the rotation part rows (-1,0,0), (0,1,0),   *)
(* (0,0,-1); every glTranslatef leaves columns 0..2 alone and every        *)
(* glRotatef(+-MOUSE_SENSITIVITY, 0,1,0) turns them by 0.4 degrees, so     *)
(* after modelviewRot net steps mat[8] = -sin t, mat[9] = 0 and            *)
(* mat[10] = -cos t with t = 0.4 * modelviewRot degrees.                   *)
(* SinCenti[k+1], CosCenti[k+1] are sin, cos of 0.4*k degrees in 1/100,    *)
(* rounded to the nearest unit.                                            *)

SinCenti == <<0, 1, 1, 2, 3, 3, 4>>

CosCenti == <<100, 100, 100, 100, 100, 100, 100>>

Abs(n) == IF n < 0 THEN -n ELSE n

getCameraForward(rot) ==
    LET k == Abs(rot) + 1
        mat8 == IF rot < 0 THEN SinCenti[k] ELSE -SinCenti[k]
        mat9 == 0
        mat10 == -CosCenti[k]
    IN  Point3(-mat8, mat9, mat10)

----------------------------------------------------------------------------
(* Initial state: init() (main.cpp:206-216) and the static locals of       *)
(* handleMouseMotion.                                                      *)

\* the angle by which the glRotatef calls have turned getCameraForward(rot)
\* from its first direction, in tenths of a degree and counted in the
\* direction of lookLeft: MOUSE_SENSITIVITY is 0.4 degrees a call
headingTenths(rot) == (-4 * rot) % 3600

InitNav ==
    /\ cameraPos = Point3(0, -200, 0)
    /\ cameraRotationY = 0
    /\ modelviewRot = 0
    /\ prevX = 0
    /\ lastKey = "none"
    /\ candidate = Point3(0, -200, 0)
    /\ offAxisMoves = 0
    /\ exited = FALSE

InitPure ==
    /\ input = Point3(0, 0, 0)
    /\ arg = Point3(0, 0, 0)
    /\ res = Point3(0, 0, 0)
    /\ calls = <<>>

\* no file being read: the Obj() constructor's empty object
InitObj ==
    /\ isOpen = FALSE
    /\ file = <<>>
    /\ lineNo = 0
    /\ name = <<>>
    /\ vertices = <<>>
    /\ normals = <<>>
    /\ faces = <<>>
    /\ cout = <<>>
    /\ pc = "done"

Init == InitNav /\ InitPure /\ InitObj

----------------------------------------------------------------------------
(* handleKeyboard(key, x, y).  switchKey is the switch statement: the      *)
(* position it leaves in *cameraPos ('q' never gets here, it exits).       *)

MoveKeys == {"w", "s", "a", "d"}

OtherKeys == {"x"}

\* mutant: case 'd' subtracts forward.x from z
switchKey_strafeSign(key, pos, forward) ==
    CASE key = "w" -> Point3(pos.x + forward.x, pos.y, pos.z + forward.z)
      [] key = "s" -> Point3(pos.x - forward.x, pos.y, pos.z - forward.z)
      [] key = "a" -> Point3(pos.x + forward.z, pos.y, pos.z - forward.x)
      [] key = "d" -> Point3(pos.x - forward.z, pos.y, pos.z - forward.x)
      [] OTHER -> pos

switchKey(key, pos, forward) ==
    CASE key = "w" -> Point3(pos.x + forward.x, pos.y, pos.z + forward.z)
      [] key = "s" -> Point3(pos.x - forward.x, pos.y, pos.z - forward.z)
      [] key = "a" -> Point3(pos.x + forward.z, pos.y, pos.z - forward.x)
      [] key = "d" -> Point3(pos.x - forward.z, pos.y, pos.z + forward.x)
      [] OTHER -> pos

\* mutant: the teleport check runs before the boundary clamp
afterSwitch_teleportFirst(pos) ==
    correctForBoundaries(teleportIfNecessary(pos))

\* correctForBoundaries(); teleportIfNecessary(); after the switch
afterSwitch(pos) == teleportIfNecessary(correctForBoundaries(pos))

handleKeyboard(key) ==
    /\ ~exited
    /\ (key \in MoveKeys /\ modelviewRot # 0) => offAxisMoves < MaxOffAxis
    /\ LET forward == getCameraForward(modelviewRot)
           moved == switchKey(key, cameraPos, forward)
       IN  /\ candidate' = moved
           /\ cameraPos' = afterSwitch(moved)
    /\ offAxisMoves' = IF key \in MoveKeys /\ modelviewRot # 0
                       THEN offAxisMoves + 1
                       ELSE offAxisMoves
    /\ lastKey' = key
    /\ UNCHANGED <<cameraRotationY, modelviewRot, prevX, exited>>
    /\ UNCHANGED pureVars
    /\ UNCHANGED objVars

\* case 'q': exit(0), before anything else is touched
handleQuit ==
    /\ ~exited
    /\ exited' = TRUE
    /\ lastKey' = "q"
    /\ candidate' = cameraPos
    /\ UNCHANGED <<cameraPos, cameraRotationY, modelviewRot, prevX,
                   offAxisMoves>>
    /\ UNCHANGED pureVars
    /\ UNCHANGED objVars

----------------------------------------------------------------------------
(* handleMouseMotion(x, y).  The y sample and prevY are written and never  *)
(* read; glutWarpPointer moves the cursor and touches no program state.    *)

\* mutant: the wrap test is > 359 instead of >= 359
lookLeft_offByOne(yaw) == IF yaw > 359 THEN 0 ELSE yaw + 1

lookLeft(yaw) == IF yaw >= 359 THEN 0 ELSE yaw + 1

lookRight(yaw) == IF yaw <= 0 THEN 359 ELSE yaw - 1

\* mutant: a sample with no horizontal change looks left (x <= prevX)
handleMouseMotion_leftOnEqual(x) ==
    /\ ~exited
    /\ IF x <= prevX
       THEN /\ cameraRotationY' = lookLeft(cameraRotationY)
            /\ modelviewRot' = modelviewRot - 1
       ELSE /\ cameraRotationY' = lookRight(cameraRotationY)
            /\ modelviewRot' = modelviewRot + 1
    /\ Abs(modelviewRot') <= MaxTurn
    /\ prevX' = x
    /\ lastKey' = "mouse"
    /\ candidate' = cameraPos
    /\ UNCHANGED <<cameraPos, offAxisMoves, exited>>
    /\ UNCHANGED pureVars
    /\ UNCHANGED objVars

\* mutant: a pointer sample also steps the camera along the view direction
handleMouseMotion_steps(x) ==
    /\ ~exited
    /\ IF x < prevX
       THEN /\ cameraRotationY' = lookLeft(cameraRotationY)
            /\ modelviewRot' = modelviewRot - 1
       ELSE /\ cameraRotationY' = lookRight(cameraRotationY)
            /\ modelviewRot' = modelviewRot + 1
    /\ Abs(modelviewRot') <= MaxTurn
    /\ prevX' = x
    /\ lastKey' = "mouse"
    /\ candidate' = cameraPos
    /\ cameraPos' = afterSwitch(switchKey("w", cameraPos,
                                          getCameraForward(modelviewRot)))
    /\ UNCHANGED <<offAxisMoves, exited>>
    /\ UNCHANGED pureVars
    /\ UNCHANGED objVars

handleMouseMotion(x) ==
    /\ ~exited
    /\ IF x < prevX
       THEN /\ cameraRotationY' = lookLeft(cameraRotationY)
            /\ modelviewRot' = modelviewRot - 1
       ELSE /\ cameraRotationY' = lookRight(cameraRotationY)
            /\ modelviewRot' = modelviewRot + 1
    /\ Abs(modelviewRot') <= MaxTurn
    /\ prevX' = x
    /\ lastKey' = "mouse"
    /\ candidate' = cameraPos
    /\ UNCHANGED <<cameraPos, offAxisMoves, exited>>
    /\ UNCHANGED pureVars
    /\ UNCHANGED objVars

KeyEvent == \E key \in MoveKeys \cup OtherKeys : handleKeyboard(key)

MouseEvent == \E x \in 0..MaxPointerX : handleMouseMotion(x)

Next == KeyEvent \/ handleQuit \/ MouseEvent

Spec == Init /\ [][Next]_vars

----------------------------------------------------------------------------
(* PureSpec: correctForBoundaries and teleportIfNecessary as functions of  *)
(* the position, called on inputs on and around every threshold of the     *)
(* source, then again on their own results.                                *)

Around(T) == UNION {{t - Eps, t, t + Eps} : t \in T}

InputX == Around({-1150, -750, -545, -332, -260, -232, 450, 1150})
              \cup {-935, -900, -280, 0, 186}

InputY == Around({-755, -753, -201, -199}) \cup {-754, -200, 0}

InputZ == Around({-1000, -750, -464, -250, -150, 476, 1000})
              \cup {-990, -760, -200, 0}

PureInit ==
    /\ InitNav
    /\ InitObj
    /\ input \in {Point3(px, py, pz) : px \in InputX, py \in InputY,
                                        pz \in InputZ}
    /\ arg = input
    /\ res = input
    /\ calls = <<>>

callClamp ==
    /\ Len(calls) < MaxCalls
    /\ arg' = res
    /\ res' = correctForBoundaries(res)
    /\ calls' = Append(calls, "clamp")
    /\ UNCHANGED <<input>>
    /\ UNCHANGED navVars
    /\ UNCHANGED objVars

callTeleport ==
    /\ Len(calls) < MaxCalls
    /\ arg' = res
    /\ res' = teleportIfNecessary(res)
    /\ calls' = Append(calls, "teleport")
    /\ UNCHANGED <<input>>
    /\ UNCHANGED navVars
    /\ UNCHANGED objVars

PureNext == callClamp \/ callTeleport

PureSpec == PureInit /\ [][PureNext]_vars

----------------------------------------------------------------------------
(* handleKeyboard as a function of the camera position, under a rotation   *)
(* that stays the same: res is cameraPos, arg the position the switch left *)
(* before the clamp and the teleport, calls the keys pressed so far.       *)

MoveInput == {Point3(px, py, pz) : px \in {500, 1150}, py \in {-200, -754},
                                   pz \in {-1000, 0}}

MoveInit ==
    /\ modelviewRot \in -MaxTurn..MaxTurn
    /\ cameraRotationY = (-modelviewRot) % 360
    /\ input \in MoveInput
    /\ cameraPos = input
    /\ candidate = input
    /\ prevX = 0
    /\ lastKey = "none"
    /\ offAxisMoves = 0
    /\ exited = FALSE
    /\ arg = input
    /\ res = input
    /\ calls = <<>>
    /\ InitObj

pressKey(key) ==
    /\ Len(calls) < MaxCalls
    /\ LET forward == getCameraForward(modelviewRot)
           moved == switchKey(key, res, forward)
       IN  /\ arg' = moved
           /\ res' = afterSwitch(moved)
    /\ calls' = Append(calls, key)
    /\ UNCHANGED <<input>>
    /\ UNCHANGED navVars
    /\ UNCHANGED objVars

MoveNext == \E key \in MoveKeys : pressKey(key)

MoveSpec == MoveInit /\ [][MoveNext]_vars

----------------------------------------------------------------------------
(* Obj::readFile.  A line is the sequence of its characters.  The numerals *)
(* of the lines modelled are decimal integers with an optional sign, which *)
(* %f and %d read alike.                                                   *)

\* std::string::operator[]: line[size()] is the terminating '\0'
charAt(line, k) == IF k < Len(line) THEN line[k + 1] ELSE "NUL"

Digits == <<"0", "1", "2", "3", "4", "5", "6", "7", "8", "9">>

IsDigit(c) == \E d \in 1..10 : Digits[d] = c

DigitVal(c) == (CHOOSE d \in 1..10 : Digits[d] = c) - 1

\* white space in a format, and before a %d or %f, eats any white space
RECURSIVE skipSpace(_, _)
skipSpace(line, k) ==
    IF charAt(line, k) = " " THEN skipSpace(line, k + 1) ELSE k

RECURSIVE scanDigits(_, _, _)
scanDigits(line, k, acc) ==
    IF IsDigit(charAt(line, k))
    THEN scanDigits(line, k + 1, acc * 10 + DigitVal(charAt(line, k)))
    ELSE [val |-> acc, next |-> k]

\* one %f or %d conversion at offset k: whether it matched, the value,
\* the offset after it
scanNumber(line, k) ==
    LET k1 == skipSpace(line, k)
        k2 == IF charAt(line, k1) \in {"-", "+"} THEN k1 + 1 ELSE k1
    IN  IF IsDigit(charAt(line, k2))
        THEN LET r == scanDigits(line, k2, 0)
             IN  [ok |-> TRUE,
                  val |-> IF charAt(line, k1) = "-" THEN -r.val ELSE r.val,
                  next |-> r.next]
        ELSE [ok |-> FALSE, val |-> 0, next |-> k]

\* sscanf_s(line, "v %f %f %f") and "vn %f %f %f" from offset k, past the
\* literal: the values assigned, in order; scanning stops at the first
\* conversion that fails
RECURSIVE scanFloats(_, _, _)
scanFloats(line, k, n) ==
    IF n = 0 THEN <<>>
    ELSE LET r == scanNumber(line, k)
         IN  IF r.ok THEN <<r.val>> \o scanFloats(line, r.next, n - 1)
             ELSE <<>>

\* sscanf_s(line, "f %d//%d %d//%d %d//%d %d//%d") from offset k, n pairs
\* to go: the values assigned, in the order v0, n0, v1, n1, ...
RECURSIVE scanFace(_, _, _)
scanFace(line, k, n) ==
    IF n = 0 THEN <<>>
    ELSE LET v == scanNumber(line, k)
         IN  IF ~v.ok THEN <<>>
             ELSE IF charAt(line, v.next) = "/"
                      /\ charAt(line, v.next + 1) = "/"
             THEN LET m == scanNumber(line, v.next + 2)
                  IN  IF m.ok
                      THEN <<v.val, m.val>> \o scanFace(line, m.next, n - 1)
                      ELSE <<v.val>>
             ELSE <<v.val>>

\* Point3 point; then the fields sscanf_s assigned: the others keep the
\* member initialisers' 0
scannedPoint(got) ==
    Point3(IF Len(got) >= 1 THEN got[1] ELSE 0,
           IF Len(got) >= 2 THEN got[2] ELSE 0,
           IF Len(got) >= 3 THEN got[3] ELSE 0)

\* values an int of Face that was never assigned may hold
Indeterminate == {-1, 0}

\* mutant: the indices are converted to positions when the line is read
scannedFace_zeroBased(got, junk) ==
    LET field(i) == IF i <= Len(got) THEN got[i] - 1 ELSE junk[i]
    IN  [vertexIds |-> <<field(1), field(3), field(5), field(7)>>,
         normalIds |-> <<field(2), field(4), field(6), field(8)>>]

\* Face face; then the fields sscanf_s assigned: the others are whatever
\* the uninitialised arrays held (junk)
scannedFace(got, junk) ==
    LET field(i) == IF i <= Len(got) THEN got[i] ELSE junk[i]
    IN  [vertexIds |-> <<field(1), field(3), field(5), field(7)>>,
         normalIds |-> <<field(2), field(4), field(6), field(8)>>]

\* mutant: the break of the last branch (main.cpp:106) is not commented out
readLine_break ==
    /\ pc = "loop"
    /\ isOpen
    /\ lineNo < Len(file)
    /\ lineNo' = lineNo + 1
    /\ LET line == file[lineNo + 1]
       IN  IF charAt(line, 0) = "#"
           THEN UNCHANGED <<name, vertices, normals, faces, cout>>
           ELSE IF charAt(line, 0) = "o"
           THEN /\ name' = SubSeq(line, 2, Len(line))
                /\ UNCHANGED <<vertices, normals, faces, cout>>
           ELSE IF charAt(line, 0) = "v"
           THEN /\ IF charAt(line, 1) = "n"
                   THEN /\ normals' = Append(normals,
                               scannedPoint(scanFloats(line, 2, 3)))
                        /\ UNCHANGED vertices
                   ELSE /\ vertices' = Append(vertices,
                               scannedPoint(scanFloats(line, 1, 3)))
                        /\ UNCHANGED normals
                /\ cout' = Append(cout, "v/vn: ")
                /\ UNCHANGED <<name, faces>>
           ELSE IF charAt(line, 0) = "f"
           THEN /\ LET got == scanFace(line, 1, 4)
                   IN  \E junk \in [(Len(got) + 1)..8 -> Indeterminate] :
                           faces' = Append(faces, scannedFace(got, junk))
                /\ cout' = Append(cout, "f: ")
                /\ UNCHANGED <<name, vertices, normals>>
           ELSE /\ cout' = Append(Append(cout,
                               "Invalid syntax or unsupported parameter: "),
                               "name")
                /\ UNCHANGED <<name, vertices, normals, faces>>
    /\ pc' = IF charAt(file[lineNo + 1], 0) \in {"#", "o", "v", "f"}
             THEN pc ELSE "done"
    /\ UNCHANGED <<isOpen, file>>
    /\ UNCHANGED navVars
    /\ UNCHANGED pureVars

\* one iteration of while (getline(file, line))
readLine ==
    /\ pc = "loop"
    /\ isOpen
    /\ lineNo < Len(file)
    /\ lineNo' = lineNo + 1
    /\ LET line == file[lineNo + 1]
       IN  IF charAt(line, 0) = "#"
           THEN UNCHANGED <<name, vertices, normals, faces, cout>>
           ELSE IF charAt(line, 0) = "o"
           THEN /\ name' = SubSeq(line, 2, Len(line))
                /\ UNCHANGED <<vertices, normals, faces, cout>>
           ELSE IF charAt(line, 0) = "v"
           THEN /\ IF charAt(line, 1) = "n"
                   THEN /\ normals' = Append(normals,
                               scannedPoint(scanFloats(line, 2, 3)))
                        /\ UNCHANGED vertices
                   ELSE /\ vertices' = Append(vertices,
                               scannedPoint(scanFloats(line, 1, 3)))
                        /\ UNCHANGED normals
                /\ cout' = Append(cout, "v/vn: ")
                /\ UNCHANGED <<name, faces>>
           ELSE IF charAt(line, 0) = "f"
           THEN /\ LET got == scanFace(line, 1, 4)
                   IN  \E junk \in [(Len(got) + 1)..8 -> Indeterminate] :
                           faces' = Append(faces, scannedFace(got, junk))
                /\ cout' = Append(cout, "f: ")
                /\ UNCHANGED <<name, vertices, normals>>
           ELSE /\ cout' = Append(cout,
                               "Invalid syntax or unsupported parameter: ")
                /\ UNCHANGED <<name, vertices, normals, faces>>
    /\ UNCHANGED <<isOpen, file, pc>>
    /\ UNCHANGED navVars
    /\ UNCHANGED pureVars

\* getline fails, at the end of the file or at once on a stream that did
\* not open (file.open's outcome is never tested): the loop ends, the
\* name is printed, readFile returns
readEnd ==
    /\ pc = "loop"
    /\ ~isOpen \/ lineNo = Len(file)
    /\ pc' = "done"
    /\ cout' = Append(cout, "name")
    /\ UNCHANGED <<isOpen, file, lineNo, name, vertices, normals, faces>>
    /\ UNCHANGED navVars
    /\ UNCHANGED pureVars

\* main: objects.insert({ ..., Obj(filename) }) and on to the next
\* statement, whatever readFile met
registerObj ==
    /\ pc = "done"
    /\ pc' = "registered"
    /\ UNCHANGED <<isOpen, file, lineNo, name, vertices, normals, faces,
                   cout>>
    /\ UNCHANGED navVars
    /\ UNCHANGED pureVars

\* Obj::toBuffer: the positions of vertices and normals it reads
toBufferVertexReads ==
    {faces[i].vertexIds[j] - 1 : i \in 1..Len(faces), j \in 1..4}

toBufferNormalReads ==
    {faces[i].normalIds[j] - 1 : i \in 1..Len(faces), j \in 1..4}

(* The lines a model file is made of. *)

LineComment == <<"#", " ", "c">>

LineName == <<"o", " ", "T", "e", "s", "t">>

LineVertex == <<"v", " ", "1", " ", "2", " ", "3">>

LineNormal == <<"v", "n", " ", "0", " ", "1", " ", "0">>

LineFace ==
    <<"f", " ", "1", "/", "/", "1", " ", "1", "/", "/", "1", " ",
      "1", "/", "/", "1", " ", "1", "/", "/", "1">>

\* a vertex with two coordinates
LineVertexShort == <<"v", " ", "1", " ", "2">>

\* a texture coordinate, which the format of this reader does not have
LineTexCoord == <<"v", "t", " ", "0", " ", "1">>

\* a normal with a non-numeric field
LineNormalBad == <<"v", "n", " ", "0", " ", "u", "p">>

\* a triangle: three index pairs
LineFaceShort ==
    <<"f", " ", "1", "/", "/", "1", " ", "1", "/", "/", "1", " ",
      "1", "/", "/", "1">>

LineGarbage == <<"x", " ", "g", "a", "r", "b", "a", "g", "e">>

LineEmpty == <<>>

Lines ==
    {LineComment, LineName, LineVertex, LineNormal, LineFace,
     LineVertexShort, LineTexCoord, LineNormalBad, LineFaceShort,
     LineGarbage, LineEmpty}

\* an object with one vertex, one normal and one quad
SampleFile == <<LineName, LineVertex, LineNormal, LineFace>>

Files == UNION {[1..n -> Lines] : n \in 0..MaxLines} \cup {SampleFile}

\* Obj(filename): a fresh object, readFile about to enter its loop
ParseInit ==
    /\ InitNav
    /\ InitPure
    /\ \/ isOpen = TRUE /\ file \in Files
       \/ isOpen = FALSE /\ file = <<>>
    /\ lineNo = 0
    /\ name = <<>>
    /\ vertices = <<>>
    /\ normals = <<>>
    /\ faces = <<>>
    /\ cout = <<>>
    /\ pc = "loop"

ParseNext == readLine \/ readEnd \/ registerObj

ParseSpec == ParseInit /\ [][ParseNext]_vars

----------------------------------------------------------------------------
(* Helpers of the claims. *)

Last(seq) == seq[Len(seq)]

DestUpper == Point3(186, -754, -990)

DestLower == Point3(-935, -200, 0)

InBox1(p) ==
    /\ p.x >= -1150 /\ p.x <= -750
    /\ p.z >= -250 /\ p.z <= -150
    /\ p.y >= -201 /\ p.y <= -199

InBox2(p) ==
    /\ p.x >= -332 /\ p.x <= -232
    /\ p.z >= -1000 /\ p.z <= -750
    /\ p.y >= -755 /\ p.y <= -753

\* teleport as the total function the claims state: if / else if / else
teleport(p) ==
    IF InBox1(p) THEN DestUpper
    ELSE IF InBox2(p) THEN DestLower
    ELSE p

InFootprint(p) ==
    /\ p.x >= -1150 /\ p.x <= 1150
    /\ p.z >= -1000 /\ p.z <= 1000

----------------------------------------------------------------------------
\* C1: after any sequence of key and pointer events from (0,-2,0) the
\* stored camera position has x in [-11.5, 11.5] and z in [-10, 10],
\* the positions written by the two teleports included.
C1_OuterFootprint == InFootprint(cameraPos)

\* a movement event whose candidate left the footprint on the x side and
\* was brought back to the edge
C1_Witness ==
    /\ lastKey \in MoveKeys
    /\ candidate.x < -1150
    /\ cameraPos.x = -1150

\* C2: teleportIfNecessary is the total function "box 1 -> (1.86,-7.54,
\* -9.9), else box 2 -> (-9.35,-2,0), else unchanged", and a second check
\* on the result of a check never moves the position again.
C2_TeleportTotal ==
    /\ (calls # <<>> /\ Last(calls) = "teleport") => res = teleport(arg)
    /\ (Len(calls) = 2 /\ calls[1] = "teleport" /\ calls[2] = "teleport")
          => res = arg

\* two checks in a row, the first of which fired trigger box 1
C2_Witness ==
    /\ calls = <<"teleport", "teleport">>
    /\ InBox1(input)
    /\ arg = DestUpper
    /\ res = DestUpper

\* C3 as stated: for every p with p.y < -7.53 and p.z in [-4.64, 4.76],
\* both ends included, correctForBoundaries(p).x is in [4.5, 11.5].
C3_HoleSpanInclusive ==
    (/\ calls # <<>> /\ Last(calls) = "clamp"
     /\ arg.y < -753
     /\ arg.z >= -464 /\ arg.z <= 476)
        => (res.x >= 450 /\ res.x <= 1150)

\* C3 as amended: the same for p.z strictly between -4.64 and 4.76; at
\* the two ends the strip branches (x >= -5.45, x >= -2.6) are taken.
C3_HoleSpanOpen ==
    (/\ calls # <<>> /\ Last(calls) = "clamp"
     /\ arg.y < -753
     /\ arg.z > -464 /\ arg.z < 476)
        => (res.x >= 450 /\ res.x <= 1150)

\* an upper-level position over the hole, next to the strip edge, pushed
\* to x = 4.5
C3_Witness ==
    /\ calls = <<"clamp">>
    /\ arg.y < -753
    /\ arg.z = -464 + Eps
    /\ arg.x < 450
    /\ res.x = 450

\* C4: correctForBoundaries is idempotent: called on its own result it
\* returns that result, on both levels and on every threshold.
C4_ClampIdempotent ==
    (Len(calls) = 2 /\ calls[1] = "clamp" /\ calls[2] = "clamp")
        => res = arg

\* a second call on a position the first call had to move, upper level
C4_Witness ==
    /\ calls = <<"clamp", "clamp">>
    /\ input.y < -753
    /\ arg # input
    /\ res = arg

\* C5 as stated: the check maps (-2.8,-2,-7.6) to (-9.35,-2,0), (-9,-2,-2)
\* to (1.86,-7.54,-9.9) and leaves (0,0,0) unchanged.
C5_TeleportSamples ==
    calls = <<"teleport">> =>
        /\ arg = Point3(-280, -200, -760) => res = Point3(-935, -200, 0)
        /\ arg = Point3(-900, -200, -200) => res = Point3(186, -754, -990)
        /\ arg = Point3(0, 0, 0) => res = Point3(0, 0, 0)

\* C5 as amended: (-2.8,-2,-7.6) is left unchanged (y = -2 is outside
\* trigger box 2); the upper-stair link fires for (-2.8,-7.54,-7.6).
C5_TeleportSamplesAmended ==
    calls = <<"teleport">> =>
        /\ arg = Point3(-280, -200, -760) => res = arg
        /\ arg = Point3(-280, -754, -760) => res = Point3(-935, -200, 0)
        /\ arg = Point3(-900, -200, -200) => res = Point3(186, -754, -990)
        /\ arg = Point3(0, 0, 0) => res = Point3(0, 0, 0)

\* the check has run on (-2.8,-2,-7.6)
C5_Witness ==
    /\ calls = <<"teleport">>
    /\ arg = Point3(-280, -200, -760)
    /\ res = Point3(-280, -200, -760)

\* C6: every movement event ends with position =
\* teleport(correctForBoundaries(candidate)): clamp first, the teleport
\* check on the clamped position; a candidate beyond x = -11.5 with z in
\* [-2.5,-1.5] on the lower level is teleported in the same event.
C6_ClampThenTeleport ==
    lastKey \in MoveKeys =>
        /\ cameraPos = teleport(correctForBoundaries(candidate))
        /\ (/\ candidate.x < -1150
            /\ candidate.z >= -250 /\ candidate.z <= -150
            /\ candidate.y = -200) => cameraPos = DestUpper

\* a candidate outside the footprint whose clamped position is in box 1
C6_Witness ==
    /\ lastKey \in MoveKeys
    /\ candidate.x < -1150
    /\ candidate.z >= -250 /\ candidate.z <= -150
    /\ candidate.y = -200
    /\ cameraPos = DestUpper

C8_LookKeepsPosition ==
    lastKey = "mouse" => cameraPos = candidate

\* a look event handled on the upper level, away from the start
C8_Witness ==
    /\ lastKey = "mouse"
    /\ cameraPos.y = -754
    /\ cameraPos = candidate

\* C9: every reachable position is a fixed point of clamp-then-teleport,
\* and a key other than w/s/a/d/q changes neither position nor yaw.
C9_UnrecognizedKeyNoop ==
    /\ [](teleportIfNecessary(correctForBoundaries(cameraPos)) = cameraPos)
    /\ [][lastKey' \in OtherKeys =>
             /\ cameraPos' = cameraPos
             /\ cameraRotationY' = cameraRotationY]_vars

\* an unrecognized key handled right after a teleport to the upper level
C9_Witness ==
    /\ lastKey \in OtherKeys
    /\ cameraPos = DestUpper
    /\ candidate = DestUpper
    /\ cameraRotationY # 0

\* the conversions a line's format asks for, and those sscanf_s made
FieldsExpected(line) == IF charAt(line, 0) = "f" THEN 8 ELSE 3

FieldsScanned(line) ==
    IF charAt(line, 0) = "f" THEN Len(scanFace(line, 1, 4))
    ELSE IF charAt(line, 1) = "n" THEN Len(scanFloats(line, 2, 3))
    ELSE Len(scanFloats(line, 1, 3))

Malformed(line) ==
    /\ charAt(line, 0) \in {"v", "f"}
    /\ FieldsScanned(line) < FieldsExpected(line)

\* C10: a line that starts with v, vn or f and does not scan the expected
\* number of numeric fields is skipped: it is reported as invalid syntax
\* and leaves vertices, normals and faces as they were.
C10_MalformedLineSkipped ==
    [][(lineNo' = lineNo + 1 /\ Malformed(file[lineNo'])) =>
          /\ vertices' = vertices
          /\ normals' = normals
          /\ faces' = faces
          /\ cout' = Append(cout,
                            "Invalid syntax or unsupported parameter: ")]_vars

\* a line the dispatch on line[0] does not know: the empty line included
Unrecognized(line) == charAt(line, 0) \notin {"#", "o", "v", "f"}

\* C11: a line whose first character is none of '#', 'o', 'v', 'f', and
\* an empty line, leaves name, vertices, normals and faces as they were
\* and does not end the loop: every line of an opened file is read.
C11_UnrecognizedLineNoEffect ==
    /\ [][(lineNo' = lineNo + 1 /\ Unrecognized(file[lineNo'])) =>
             /\ name' = name
             /\ vertices' = vertices
             /\ normals' = normals
             /\ faces' = faces
             /\ pc' = "loop"]_vars
    /\ []((pc # "loop" /\ isOpen) => lineNo = Len(file))

\* an unrecognized or empty first line, and the vertex of the second line
\* stored
C11_Witness ==
    /\ pc = "done"
    /\ Len(file) = 2
    /\ Unrecognized(file[1])
    /\ file[2] = LineVertex
    /\ vertices = <<Point3(1, 2, 3)>>

\* C12: once readFile has returned, every vertex index and every normal
\* index of every face resolves inside vertices and normals: toBuffer
\* reads no position outside them.
C12_IndicesResolve ==
    (pc # "loop") =>
        /\ toBufferVertexReads \subseteq 0..(Len(vertices) - 1)
        /\ toBufferNormalReads \subseteq 0..(Len(normals) - 1)

\* C13 as stated: the sample's face is stored with the positions
\* [0,0,0,0], converted when the line is read.
C13_SampleZeroBased ==
    (pc = "done" /\ file = SampleFile) =>
        /\ name = <<" ", "T", "e", "s", "t">>
        /\ vertices = <<Point3(1, 2, 3)>>
        /\ normals = <<Point3(0, 1, 0)>>
        /\ faces = <<[vertexIds |-> <<0, 0, 0, 0>>,
                      normalIds |-> <<0, 0, 0, 0>>]>>

\* C13: reading o Test, v 1 2 3, vn 0 1 0, f 1//1 1//1 1//1 1//1 gives the
\* name " Test", the vertex (1,2,3), the normal (0,1,0) and one face that
\* stores the file's indices [1,1,1,1]; toBuffer subtracts one and reads
\* position 0 of vertices and of normals.
C13_SampleOneBased ==
    (pc = "done" /\ file = SampleFile) =>
        /\ name = <<" ", "T", "e", "s", "t">>
        /\ vertices = <<Point3(1, 2, 3)>>
        /\ normals = <<Point3(0, 1, 0)>>
        /\ faces = <<[vertexIds |-> <<1, 1, 1, 1>>,
                      normalIds |-> <<1, 1, 1, 1>>]>>
        /\ toBufferVertexReads = {0}
        /\ toBufferNormalReads = {0}

\* the four sample lines read to the end
C13_Witness ==
    /\ pc = "done"
    /\ isOpen
    /\ file = SampleFile
    /\ lineNo = 4
    /\ Len(faces) = 1

\* C14: a model file that could not be opened is never registered as a
\* scene part: the program does not go on with its empty Obj.
C14_AllOrNothing ==
    ~isOpen => pc # "registered"

\* C15: with F the forward vector, the switch leaves w: (x+Fx, z+Fz),
\* s: (x-Fx, z-Fz), a: (x+Fz, z-Fx), d: (x-Fz, z+Fx), y as it was; and w
\* then s, or a then d, when neither clamp nor teleport changed either
\* candidate, ends at the position it started from.
C15_MoveCandidates ==
    [][calls' # calls =>
         LET key == Last(calls')
             F == getCameraForward(modelviewRot)
         IN  /\ key = "w" => arg' = Point3(res.x + F.x, res.y, res.z + F.z)
             /\ key = "s" => arg' = Point3(res.x - F.x, res.y, res.z - F.z)
             /\ key = "a" => arg' = Point3(res.x + F.z, res.y, res.z - F.x)
             /\ key = "d" => arg' = Point3(res.x - F.z, res.y, res.z + F.x)
             /\ ( /\ calls' \in {<<"w", "s">>, <<"a", "d">>}
                  /\ res = arg
                  /\ res' = arg' ) => res' = input]_vars

\* a then d under a rotation off the axis, nothing clamped, back at the start
C15_Witness ==
    /\ calls = <<"a", "d">>
    /\ modelviewRot # 0
    /\ res = arg
    /\ res = input

\* C16: after any look events the heading of the forward vector the next
\* movement reads equals the yaw counter, in degrees modulo 360.
C16_HeadingIsYaw ==
    headingTenths(modelviewRot) = 10 * cameraRotationY

\* C17: in every reachable state with y < -7.53 the camera is on the
\* L-shaped floor: x >= -5.45 when z is in [-10, -4.64], x >= -2.6 when z
\* is in [4.76, 10], and x >= 4.5 when z is strictly between -4.64 and
\* 4.76; the teleport destination of the lower stair included.
C17_UpperFloorShape ==
    cameraPos.y < -753 =>
        /\ (cameraPos.z >= -1000 /\ cameraPos.z <= -464)
               => cameraPos.x >= -545
        /\ (cameraPos.z >= 476 /\ cameraPos.z <= 1000)
               => cameraPos.x >= -260
        /\ (cameraPos.z > -464 /\ cameraPos.z < 476)
               => cameraPos.x >= 450

\* a step from the landing strip into the z-span of the hole, west of
\* x = 4.5, that ends at x = 4.5
C17_Witness ==
    /\ lastKey \in MoveKeys
    /\ candidate.y < -753
    /\ candidate.x < 450
    /\ candidate.z > -464 /\ candidate.z < 476
    /\ cameraPos.x = 450
    /\ cameraPos.z = candidate.z

\* C18: y is always -2 or -7.54, and an event changes it only by a
\* teleport of a movement key: from -2 to the upper destination when the
\* clamped candidate is in trigger box 1, from -7.54 to the lower
\* destination when it is in trigger box 2; look events, quit and other
\* keys leave y as it was.
C18_YOnlyByTeleport ==
    /\ [](cameraPos.y \in {-200, -754})
    /\ [][cameraPos'.y # cameraPos.y =>
             /\ lastKey' \in MoveKeys
             /\ candidate'.y = cameraPos.y
             /\ \/ /\ cameraPos.y = -200
                   /\ InBox1(correctForBoundaries(candidate'))
                   /\ cameraPos' = DestUpper
                \/ /\ cameraPos.y = -754
                   /\ InBox2(correctForBoundaries(candidate'))
                   /\ cameraPos' = DestLower]_vars

\* back on the lower floor through trigger box 2
C18_Witness ==
    /\ lastKey \in MoveKeys
    /\ candidate.y = -754
    /\ InBox2(candidate)
    /\ cameraPos = DestLower

\* C19: for every position p the z of correctForBoundaries(p) is p.z
\* clamped to [-10, 10]: the upper-level branches never change z.  So an
\* upper-level position west of x = 4.5 with z strictly inside the hole's
\* span is corrected by x = 4.5 and keeps its z.
C19_SecondTierKeepsZ ==
    (Len(calls) >= 1 /\ Last(calls) = "clamp") =>
        /\ res.z = IF arg.z < -1000 THEN -1000
                   ELSE IF arg.z > 1000 THEN 1000
                   ELSE arg.z
        /\ ( /\ arg.y < -753
             /\ arg.x < 450
             /\ arg.z > -464 /\ arg.z < 476 )
               => (res.x = 450 /\ res.z = arg.z)

\* an upper-level position in the hole region of the landing strip, where
\* the inner z-clamp runs and leaves z alone
C19_Witness ==
    /\ calls = <<"clamp">>
    /\ arg.y < -753
    /\ arg.x >= -545 /\ arg.x <= 450
    /\ arg.z = -464
    /\ res = arg

====
